---- MODULE Spec2Model ----
(***************************************************************************)
(* The two sensor bridges of the repository.                               *)
(*                                                                         *)
(*   Capture bridge  src/custom_classes/server.py   class ImageServer      *)
(*     POST /capture handlers (coroutines of one uvicorn event loop)       *)
(*     publish into _current_probe_data; consumer threads take it with     *)
(*     get_next_image.                                                     *)
(*   Pose bridge     src/scripts/htc_vive/server.py                        *)
(*     ViveTrackerThread polls the tracker into latest_pose_data; GET      *)
(*     /pose handler threads read it.                                      *)
(***************************************************************************)
EXTENDS Integers, Sequences, FiniteSets, TLC

VARIABLES
    \* ---- capture bridge: ImageServer fields
    current_probe_data,   \* self._current_probe_data
    event,                \* self._event (threading.Event flag)
    lock,                 \* self._lock  (owner)
    \* ---- capture bridge: /capture requests, numbered in order of receipt
    now,                  \* the value the next time.time() call returns
    hpc,                  \* position of each handler coroutine
    hreq,                 \* the request a handler serves
    htime,                \* its local current_time
    hresp,                \* the envelope it returned
    hserver,              \* the server whose event loop runs it
    \* ---- capture bridge: threads calling get_next_image
    cpc,                  \* position of each consumer thread
    image_data,           \* its local image_data
    cret,                 \* what its last call returned
    \* ---- capture bridge: ImageServer.start and ImageServer.stop
    server,               \* self._server
    server_thread,        \* self._server_thread
    servers,              \* every uvicorn.Server created, with its thread
    opc,                  \* position of the thread that calls start and stop
    \* ---- capture bridge: history (not program state)
    last_call,            \* the last of start and stop to be called
    stop_saw,             \* the waiting calls a step of stop has found
    published,            \* frames in the order they were written to the slot
    takenLog,             \* frames removed from the slot, in order
    cstart,               \* what each call saw when it began
    ctake,                \* Len(published) when the call read the slot
    \* ---- pose bridge: module globals
    latest_pose_data,     \* the shared pose record
    pose_lock,            \* owner of pose_lock
    shutdown_event,       \* shutdown_event flag
    \* ---- pose bridge: the tracking hardware
    session,              \* the OpenVR session: "closed" or "open"
    pnow,                 \* the value the next time.time() call returns
    \* ---- pose bridge: ViveTrackerThread.run
    tpc,                  \* position of the poller thread
    vr_sys,               \* its local vr_sys is set
    current_time_epoch,   \* its local current_time_epoch
    p,                    \* its local p: the matrix and bPoseIsValid read
    tracker_index,        \* its local tracker_index
    \* ---- pose bridge: main
    mpc,                  \* position of main
    \* ---- pose bridge: GET handler threads
    gpc,                  \* position of each handler thread
    gpath,                \* the path requested
    snapshot,             \* its locals timestamp, pose_matrix, is_valid
    gresp,                \* the response it sent
    \* ---- pose bridge: history (not program state)
    samples               \* the (timestamp, pose_matrix, is_valid) each
                          \* loop iteration wrote, in order

lifeVars == <<server, server_thread, servers, opc, last_call, stop_saw>>

capVars == <<current_probe_data, event, lock, now, hpc, hreq, htime, hresp,
             hserver, cpc, image_data, cret, published, takenLog, cstart,
             ctake, lifeVars>>

poseVars == <<latest_pose_data, pose_lock, shutdown_event, session, pnow, tpc,
              vr_sys, current_time_epoch, p, tracker_index, mpc, gpc, gpath,
              snapshot, gresp, samples>>

vars == <<capVars, poseVars>>

(***************************************************************************)
(* Bounds                                                                  *)
(***************************************************************************)
MaxReq == 2               \* /capture requests in one run
MaxPolls == 2             \* iterations of the poller's loop in one run
MaxStarts == 2            \* calls of ImageServer.start in one run

Requests == 1..MaxReq
Consumers == {1, 2}       \* threads that call get_next_image
Getters == {1, 2}         \* threads that handle a GET request

(***************************************************************************)
(* Values                                                                  *)
(***************************************************************************)
None == [kind |-> "None"]
Unset == [kind |-> "unset"]            \* a local not yet assigned
Free == [by |-> "nobody", id |-> 0]
HandlerLock(h) == [by |-> "capture", id |-> h]
ConsumerLock(c) == [by |-> "get_next_image", id |-> c]
Server(n) == [kind |-> "Server", id |-> n]     \* the n-th uvicorn.Server
Thread(n) == [kind |-> "Thread", id |-> n]     \* the thread that runs it

NoHeader == "<no header>"              \* headers.get(...) finds nothing
EmptyDict == [k \in {} |-> 0]

\* request.headers.get(name, default)
HeaderGet(value, default) == IF value = NoHeader THEN default ELSE value

\* Python truth value of an optional header string
Truthy(value) == value \notin {NoHeader, ""}

\* str.lower() on the content types a client of the model sends
lower(s) ==
    CASE s = "IMAGE/PNG" -> "image/png"
      [] s = "Text/Plain" -> "text/plain"
      [] OTHER -> s

\* variant: every type with a slash passes for image/
startswithBroken(s, prefix) ==
    CASE prefix = "multipart/form-data" ->
            s \in {"multipart/form-data", "multipart/form-data; boundary=b"}
      [] prefix = "image/" -> s \in {"image/png", "image/jpeg", "text/plain"}
      [] OTHER -> FALSE

\* str.startswith(prefix) on (lower-cased) content types
startswith(s, prefix) ==
    CASE prefix = "multipart/form-data" ->
            s \in {"multipart/form-data", "multipart/form-data; boundary=b"}
      [] prefix = "image/" -> s \in {"image/png", "image/jpeg"}
      [] OTHER -> FALSE

\* variant: the bytes are taken for pixels without being identified
DecodeAnything(contents) ==
    [ok |-> TRUE, image_array |-> [ndim |-> 3, pixels |-> contents]]

\* Image.open(io.BytesIO(contents)) followed by np.array(image)
Decode(contents) ==
    CASE contents = "png-rgb" ->
            [ok |-> TRUE, image_array |-> [ndim |-> 3, pixels |-> contents]]
      [] contents = "png-gray" ->
            [ok |-> TRUE, image_array |-> [ndim |-> 2, pixels |-> contents]]
      [] OTHER ->
            [ok |-> FALSE, message |-> "cannot identify image file"]

\* json.loads(text) on the header texts a client of the model sends
JsonLoads(text) ==
    CASE text = "{}" -> [ok |-> TRUE, type |-> "dict", value |-> EmptyDict]
      [] text = "{\"k\": 7}" ->
            [ok |-> TRUE, type |-> "dict", value |-> ("k" :> 7)]
      [] text = "{\"epoch\": 0, \"capture_epoch\": 0}" ->
            [ok |-> TRUE, type |-> "dict",
             value |-> ("epoch" :> 0) @@ ("capture_epoch" :> 0)]
      [] text = "[1]" -> [ok |-> TRUE, type |-> "list", value |-> <<1>>]
      [] text = "7" -> [ok |-> TRUE, type |-> "int", value |-> 7]
      [] text = "\"s\"" -> [ok |-> TRUE, type |-> "str", value |-> "s"]
      [] OTHER -> [ok |-> FALSE]

\* str(e) of the TypeError that metadata["epoch"] = ... raises on a value
\* that is not a dict
SetItemError(type) ==
    CASE type = "list" -> "list indices must be integers or slices, not str"
      [] type = "int" -> "'int' object does not support item assignment"
      [] type = "str" -> "'str' object does not support item assignment"

\* dict item assignment d[key] = value
SetItem(d, key, value) == [k \in (DOMAIN d) \cup {key} |-> IF k = key THEN value ELSE d[k]]

\* variant: line 82 missing
MetadataNoStamp(req, current_time) ==
    [ok |-> TRUE, metadata |-> EmptyDict]

\* variant: the stamp is set before the client's entries are merged in
MetadataClientWins(req, current_time) ==
    LET x_metadata == req.x_metadata
        x_metadata_content_type == req.x_metadata_content_type
        stamped == SetItem(EmptyDict, "epoch", current_time)
    IN  IF Truthy(x_metadata) /\ x_metadata_content_type = "application/json"
           /\ JsonLoads(x_metadata).ok /\ JsonLoads(x_metadata).type = "dict"
        THEN [ok |-> TRUE, metadata |-> JsonLoads(x_metadata).value @@ stamped]
        ELSE [ok |-> TRUE, metadata |-> stamped]

\* variant: the JSONDecodeError is not caught at line 76
MetadataRejectsMalformed(req, current_time) ==
    LET x_metadata == req.x_metadata
    IN  IF Truthy(x_metadata) /\ ~JsonLoads(x_metadata).ok
        THEN [ok |-> FALSE, message |-> "Invalid X-Metadata format"]
        ELSE [ok |-> TRUE, metadata |-> SetItem(EmptyDict, "epoch", current_time)]

\* lines 68-82: the metadata of a request received at current_time
Metadata(req, current_time) ==
    LET x_metadata == req.x_metadata
        x_metadata_content_type == req.x_metadata_content_type
        loaded == JsonLoads(x_metadata)
        metadata ==
            IF Truthy(x_metadata) /\ x_metadata_content_type = "application/json"
            THEN IF loaded.ok
                 THEN [type |-> loaded.type, value |-> loaded.value]
                 ELSE [type |-> "dict",
                       value |-> ("error" :> "Invalid X-Metadata format")
                                 @@ ("raw" :> x_metadata)]
            ELSE [type |-> "dict", value |-> EmptyDict]
    IN  IF metadata.type = "dict"
        THEN [ok |-> TRUE, metadata |-> SetItem(metadata.value, "epoch", current_time)]
        ELSE [ok |-> FALSE, message |-> SetItemError(metadata.type)]

Success == [status |-> "success"]
Error(message) == [status |-> "error", message |-> message]
NoResponse == [status |-> "pending"]

\* lines 65-82 on the bytes read: the frame to publish, or the exception text
Prepare(h, req, contents, current_time) ==
    LET img == Decode(contents)
        md == Metadata(req, current_time)
    IN  IF ~img.ok THEN [ok |-> FALSE, message |-> img.message]
        ELSE IF ~md.ok THEN [ok |-> FALSE, message |-> md.message]
        ELSE [ok |-> TRUE,
              frame |-> [kind |-> "frame", request |-> h,
                         image_array |-> img.image_array,
                         metadata |-> md.metadata]]


(***************************************************************************)
(* The requests a client sends                                             *)
(***************************************************************************)
Req(ct, ff, data, xm, xmct) ==
    [content_type |-> ct, form_file |-> ff, data |-> data,
     x_metadata |-> xm, x_metadata_content_type |-> xmct]

Json == "application/json"

\* every kind of request the handler tells apart
ClientRequests ==
    { Req("image/png", "absent", "png-rgb", NoHeader, NoHeader),
      Req("image/png", "absent", "png-gray", NoHeader, NoHeader),
      Req("IMAGE/PNG", "absent", "png-rgb", "{\"k\": 7}", Json),
      Req("image/png", "absent", "", NoHeader, NoHeader),
      Req("image/png", "absent", "garbage", NoHeader, NoHeader),
      Req("multipart/form-data; boundary=b", "upload", "png-rgb", NoHeader, NoHeader),
      Req("multipart/form-data; boundary=b", "absent", "", NoHeader, NoHeader),
      Req("multipart/form-data; boundary=b", "string", "", NoHeader, NoHeader),
      Req("text/plain", "absent", "png-rgb", NoHeader, NoHeader),
      Req(NoHeader, "absent", "png-rgb", NoHeader, NoHeader),
      Req("image/png", "absent", "png-rgb", "{bad", Json),
      Req("image/png", "absent", "png-rgb", "{bad", NoHeader),
      Req("image/png", "absent", "png-rgb", "{\"epoch\": 0, \"capture_epoch\": 0}", Json),
      Req("image/png", "absent", "png-rgb", "[1]", Json),
      Req("image/png", "absent", "png-rgb", "7", Json),
      Req("image/png", "absent", "png-rgb", "\"s\"", Json) }

\* the requests that publish, one for each way of reading the payload
PublishingRequests ==
    { Req("image/png", "absent", "png-rgb", NoHeader, NoHeader),
      Req("multipart/form-data; boundary=b", "upload", "png-gray", NoHeader, NoHeader) }

NoRequest == Req(NoHeader, "absent", "", NoHeader, NoHeader)

(***************************************************************************)
(* ImageServer.__init__ (lines 16-22)                                      *)
(***************************************************************************)
InitFields ==
    /\ current_probe_data = None
    /\ event = FALSE
    /\ lock = Free
    /\ now = 1
    /\ hpc = [h \in Requests |-> "idle"]
    /\ hreq = [h \in Requests |-> NoRequest]
    /\ htime = [h \in Requests |-> 0]
    /\ hresp = [h \in Requests |-> NoResponse]
    /\ hserver = [h \in Requests |-> 0]
    /\ cpc = [c \in Consumers |-> "idle"]
    /\ image_data = [c \in Consumers |-> Unset]
    /\ cret = [c \in Consumers |-> Unset]
    /\ published = <<>>
    /\ takenLog = <<>>
    /\ cstart = [c \in Consumers |->
                    [empty |-> FALSE, npub |-> 0, stopped |-> FALSE]]
    /\ ctake = [c \in Consumers |-> 0]
    /\ opc = "idle"
    /\ stop_saw = [c \in Consumers |->
                      [blocked |-> FALSE, npub |-> 0, starts |-> 0,
                       signalled |-> 0]]

\* lines 16-22
InitCapture ==
    /\ InitFields
    /\ server = None
    /\ server_thread = None
    /\ servers = <<>>
    /\ last_call = "none"

consumerVars == <<cpc, image_data, cret, takenLog, cstart, ctake>>
handlerVars == <<now, hpc, hreq, htime, hresp, hserver>>

(***************************************************************************)
(* capture (lines 36-91).  The handlers are coroutines of one event loop:  *)
(* a handler gives way to another only at an await (lines 44, 49, 51), and *)
(* while one of them is between awaits, waiting for the lock included, no  *)
(* other runs.                                                             *)
(***************************************************************************)
LoopFreeOn(s, h) ==
    \A g \in Requests \ {h} :
        hserver[g] = s => hpc[g] \notin {"acquire", "store", "set", "exit"}

LoopFree(h) == LoopFreeOn(hserver[h], h)

Respond(h, envelope) ==
    /\ hpc' = [hpc EXCEPT ![h] = "done"]
    /\ hresp' = [hresp EXCEPT ![h] = envelope]

\* lines 37-63: the request is received, its time read, its content type sorted
CaptureBegin(h, req) ==
    /\ hpc[h] = "idle"
    /\ \A g \in Requests : g < h => hpc[g] # "idle"
    /\ \E s \in DOMAIN servers :
          /\ servers[s].state = "serving"
          /\ LoopFreeOn(s, h)
          /\ hserver' = [hserver EXCEPT ![h] = s]
    /\ hreq' = [hreq EXCEPT ![h] = req]
    /\ htime' = [htime EXCEPT ![h] = now]
    /\ now' = now + 1
    /\ LET content_type == lower(HeaderGet(req.content_type, ""))
       IN  IF startswith(content_type, "multipart/form-data")
           THEN /\ hpc' = [hpc EXCEPT ![h] = "form"]
                /\ hresp' = hresp
           ELSE IF startswith(content_type, "image/")
           THEN /\ hpc' = [hpc EXCEPT ![h] = "body"]
                /\ hresp' = hresp
           ELSE Respond(h, Error("Unsupported content type: " \o content_type))
    /\ UNCHANGED poseVars
    /\ UNCHANGED lifeVars
    /\ UNCHANGED <<current_probe_data, event, lock, published, consumerVars>>

\* lines 44-48: request.form() has returned
CaptureForm(h) ==
    /\ hpc[h] = "form"
    /\ LoopFree(h)
    /\ IF hreq[h].form_file # "upload"
       THEN Respond(h, Error("No file uploaded"))
       ELSE /\ hpc' = [hpc EXCEPT ![h] = "read"]
            /\ hresp' = hresp
    /\ UNCHANGED poseVars
    /\ UNCHANGED lifeVars
    /\ UNCHANGED <<current_probe_data, event, lock, published, consumerVars,
                   now, hreq, hserver, htime>>

\* lines 65-82, then the handler goes for the lock or returns the error
Process(h, contents) ==
    LET prepared == Prepare(h, hreq[h], contents, htime[h])
    IN  IF prepared.ok
        THEN /\ hpc' = [hpc EXCEPT ![h] = "acquire"]
             /\ hresp' = hresp
        ELSE Respond(h, Error(prepared.message))

\* line 49: file_upload.read() has returned
CaptureRead(h) ==
    /\ hpc[h] = "read"
    /\ LoopFree(h)
    /\ Process(h, hreq[h].data)
    /\ UNCHANGED poseVars
    /\ UNCHANGED lifeVars
    /\ UNCHANGED <<current_probe_data, event, lock, published, consumerVars,
                   now, hreq, hserver, htime>>

\* lines 51-57: request.body() has returned
CaptureBody(h) ==
    /\ hpc[h] = "body"
    /\ LoopFree(h)
    /\ IF hreq[h].data = ""
       THEN Respond(h, Error("No image data in request body"))
       ELSE Process(h, hreq[h].data)
    /\ UNCHANGED poseVars
    /\ UNCHANGED lifeVars
    /\ UNCHANGED <<current_probe_data, event, lock, published, consumerVars,
                   now, hreq, hserver, htime>>

\* line 84: with self._lock
CaptureAcquire(h) ==
    /\ hpc[h] = "acquire"
    /\ lock = Free
    /\ lock' = HandlerLock(h)
    /\ hpc' = [hpc EXCEPT ![h] = "store"]
    /\ UNCHANGED poseVars
    /\ UNCHANGED lifeVars
    /\ UNCHANGED <<current_probe_data, event, published, consumerVars,
                   now, hreq, hserver, htime, hresp>>

\* variant: a pending frame is kept
StoreUnlessPending(old, frame) == IF old = None THEN frame ELSE old

\* what line 85 leaves in the slot
Store(old, frame) == frame

\* line 85
CaptureStore(h) ==
    /\ hpc[h] = "store"
    /\ LET frame == Prepare(h, hreq[h], hreq[h].data, htime[h]).frame
       IN  /\ current_probe_data' = Store(current_probe_data, frame)
           /\ published' = Append(published, frame)
    /\ hpc' = [hpc EXCEPT ![h] = "set"]
    /\ UNCHANGED poseVars
    /\ UNCHANGED lifeVars
    /\ UNCHANGED <<event, lock, consumerVars, now, hreq, hserver, htime, hresp>>

\* variant: line 86 missing
CaptureSetSkipped(h) ==
    /\ hpc[h] = "set"
    /\ hpc' = [hpc EXCEPT ![h] = "exit"]
    /\ UNCHANGED poseVars
    /\ UNCHANGED lifeVars
    /\ UNCHANGED <<current_probe_data, event, lock, published, consumerVars,
                   now, hreq, hserver, htime, hresp>>

\* line 86
CaptureSet(h) ==
    /\ hpc[h] = "set"
    /\ event' = TRUE
    /\ hpc' = [hpc EXCEPT ![h] = "exit"]
    /\ UNCHANGED poseVars
    /\ UNCHANGED lifeVars
    /\ UNCHANGED <<current_probe_data, lock, published, consumerVars,
                   now, hreq, hserver, htime, hresp>>

\* variant: the lock is still held when the acknowledgement is returned
CaptureExitKeepsLock(h) ==
    /\ hpc[h] = "exit"
    /\ Respond(h, Success)
    /\ UNCHANGED poseVars
    /\ UNCHANGED lifeVars
    /\ UNCHANGED <<current_probe_data, event, lock, published, consumerVars,
                   now, hreq, hserver, htime>>

\* lines 87-88: the with block ends, the acknowledgement is returned
CaptureExit(h) ==
    /\ hpc[h] = "exit"
    /\ lock' = Free
    /\ Respond(h, Success)
    /\ UNCHANGED poseVars
    /\ UNCHANGED lifeVars
    /\ UNCHANGED <<current_probe_data, event, published, consumerVars,
                   now, hreq, hserver, htime>>


(***************************************************************************)
(* get_next_image (lines 110-116), called from any thread                  *)
(***************************************************************************)
\* the call begins
GetNextImage(c) ==
    /\ cpc[c] \in {"idle", "returned", "raised"}
    /\ cpc' = [cpc EXCEPT ![c] = "wait"]
    /\ image_data' = [image_data EXCEPT ![c] = Unset]
    /\ cret' = [cret EXCEPT ![c] = Unset]
    /\ cstart' = [cstart EXCEPT ![c] =
                      [empty |-> current_probe_data = None,
                       npub |-> Len(published),
                       stopped |-> opc = "idle" /\ last_call = "stop"]]
    /\ ctake' = [ctake EXCEPT ![c] = 0]
    /\ UNCHANGED poseVars
    /\ UNCHANGED lifeVars
    /\ UNCHANGED <<current_probe_data, event, lock, published, takenLog,
                   handlerVars>>

\* line 111: self._event.wait() returns once the flag is set
EventWait(c) ==
    /\ cpc[c] = "wait"
    /\ event
    /\ cpc' = [cpc EXCEPT ![c] = "acquire"]
    /\ UNCHANGED poseVars
    /\ UNCHANGED lifeVars
    /\ UNCHANGED <<current_probe_data, event, lock, published, takenLog,
                   image_data, cret, cstart, ctake, handlerVars>>

\* line 112: with self._lock
ConsumerAcquire(c) ==
    /\ cpc[c] = "acquire"
    /\ lock = Free
    /\ lock' = ConsumerLock(c)
    /\ cpc' = [cpc EXCEPT ![c] = "take"]
    /\ UNCHANGED poseVars
    /\ UNCHANGED lifeVars
    /\ UNCHANGED <<current_probe_data, event, published, takenLog,
                   image_data, cret, cstart, ctake, handlerVars>>

\* variant: line 114 missing
ConsumerTakeKeepsSlot(c) ==
    /\ cpc[c] = "take"
    /\ image_data' = [image_data EXCEPT ![c] = current_probe_data]
    /\ ctake' = [ctake EXCEPT ![c] = Len(published)]
    /\ takenLog' = IF current_probe_data = None THEN takenLog
                   ELSE Append(takenLog, [index |-> Len(published),
                                          request |-> current_probe_data.request])
    /\ cpc' = [cpc EXCEPT ![c] = "clear"]
    /\ UNCHANGED poseVars
    /\ UNCHANGED lifeVars
    /\ UNCHANGED <<current_probe_data, event, lock, published, cret, cstart,
                   handlerVars>>

\* lines 113-114: the slot is read into image_data and emptied
ConsumerTake(c) ==
    /\ cpc[c] = "take"
    /\ image_data' = [image_data EXCEPT ![c] = current_probe_data]
    /\ current_probe_data' = None
    /\ ctake' = [ctake EXCEPT ![c] = Len(published)]
    /\ takenLog' = IF current_probe_data = None THEN takenLog
                   ELSE Append(takenLog, [index |-> Len(published),
                                          request |-> current_probe_data.request])
    /\ cpc' = [cpc EXCEPT ![c] = "clear"]
    /\ UNCHANGED poseVars
    /\ UNCHANGED lifeVars
    /\ UNCHANGED <<event, lock, published, cret, cstart, handlerVars>>

\* variant: line 115 missing
ConsumerClearKeepsEvent(c) ==
    /\ cpc[c] = "clear"
    /\ lock' = Free
    /\ cpc' = [cpc EXCEPT ![c] = "reduce"]
    /\ UNCHANGED poseVars
    /\ UNCHANGED lifeVars
    /\ UNCHANGED <<current_probe_data, event, published, takenLog, image_data,
                   cret, cstart, ctake, handlerVars>>

\* line 115, then the with block ends
ConsumerClear(c) ==
    /\ cpc[c] = "clear"
    /\ event' = FALSE
    /\ lock' = Free
    /\ cpc' = [cpc EXCEPT ![c] = "reduce"]
    /\ UNCHANGED poseVars
    /\ UNCHANGED lifeVars
    /\ UNCHANGED <<current_probe_data, published, takenLog, image_data, cret,
                   cstart, ctake, handlerVars>>

\* line 116: (np.mean(image_data[0], axis=2), image_data[1])
Reduce(data) ==
    IF data = None
    THEN [kind |-> "raised", error |-> "TypeError"]     \* None[0]
    ELSE IF data.image_array.ndim = 3
    THEN [kind |-> "returned", request |-> data.request,
          value |-> <<[ndim |-> 2, pixels |-> data.image_array.pixels],
                      data.metadata>>]
    ELSE [kind |-> "raised", error |-> "AxisError"]     \* no axis 2

ConsumerReturn(c) ==
    /\ cpc[c] = "reduce"
    /\ cret' = [cret EXCEPT ![c] = Reduce(image_data[c])]
    /\ cpc' = [cpc EXCEPT ![c] = Reduce(image_data[c]).kind]
    /\ UNCHANGED poseVars
    /\ UNCHANGED lifeVars
    /\ UNCHANGED <<current_probe_data, event, lock, published, takenLog,
                   image_data, cstart, ctake, handlerVars>>

(***************************************************************************)
(* ImageServer.start (lines 93-99) and ImageServer.stop (lines 101-108),   *)
(* called one after the other from one thread, the atexit call of stop     *)
(* (line 24) included                                                      *)
(***************************************************************************)
otherCapVars == <<current_probe_data, event, lock, published, consumerVars,
                  handlerVars>>

\* a call of get_next_image is waiting at line 111 with the event clear
Blocked(c) == cpc[c] = "wait" /\ ~event

\* the handlers that have set the event (line 86)
Signalled ==
    {h \in Requests : hpc[h] = "exit" \/ (hpc[h] = "done" /\ hresp[h] = Success)}

\* history: the calls of get_next_image that are blocked while a step of
\* stop is taken, with the starts and the publishes there have been so far
StopSees ==
    [c \in Consumers |->
        IF Blocked(c)
        THEN [blocked |-> TRUE, npub |-> cstart[c].npub,
              starts |-> Len(servers), signalled |-> Cardinality(Signalled)]
        ELSE stop_saw[c]]

\* lines 94-98: a new server and its daemon thread replace the fields
Start ==
    /\ opc = "idle"
    /\ Len(servers) < MaxStarts
    /\ servers' = Append(servers, [should_exit |-> FALSE, state |-> "starting"])
    /\ server' = Server(Len(servers) + 1)
    /\ server_thread' = Thread(Len(servers) + 1)
    /\ last_call' = "start"
    /\ UNCHANGED <<opc, stop_saw>>
    /\ UNCHANGED otherCapVars
    /\ UNCHANGED poseVars

\* stop is called
StopCall ==
    /\ opc = "idle"
    /\ opc' = "test"
    /\ stop_saw' = StopSees
    /\ last_call' = "stop"
    /\ UNCHANGED <<server, server_thread, servers>>
    /\ UNCHANGED otherCapVars
    /\ UNCHANGED poseVars

\* line 102: if self._server
StopTest ==
    /\ opc = "test"
    /\ opc' = IF server # None THEN "should_exit" ELSE "idle"
    /\ stop_saw' = StopSees
    /\ UNCHANGED <<server, server_thread, servers, last_call>>
    /\ UNCHANGED otherCapVars
    /\ UNCHANGED poseVars

\* line 103
StopShouldExit ==
    /\ opc = "should_exit"
    /\ servers' = [servers EXCEPT ![server.id].should_exit = TRUE]
    /\ opc' = "join"
    /\ stop_saw' = StopSees
    /\ UNCHANGED <<server, server_thread, last_call>>
    /\ UNCHANGED otherCapVars
    /\ UNCHANGED poseVars

\* lines 104-105: the join, made when the thread is alive, returns when the
\* thread has ended or after the timeout
StopJoin ==
    /\ opc = "join"
    /\ opc' = "clear"
    /\ stop_saw' = StopSees
    /\ UNCHANGED <<server, server_thread, servers, last_call>>
    /\ UNCHANGED otherCapVars
    /\ UNCHANGED poseVars

\* variant: the fields keep the stopped server
StopClearKeepsFields ==
    /\ opc = "clear"
    /\ opc' = "idle"
    /\ stop_saw' = StopSees
    /\ UNCHANGED <<server, server_thread, servers, last_call>>
    /\ UNCHANGED otherCapVars
    /\ UNCHANGED poseVars

\* variant: stop wakes the threads waiting for a frame
StopClearSetsEvent ==
    /\ opc = "clear"
    /\ server' = None
    /\ server_thread' = None
    /\ event' = TRUE
    /\ opc' = "idle"
    /\ stop_saw' = StopSees
    /\ UNCHANGED <<servers, last_call>>
    /\ UNCHANGED <<current_probe_data, lock, published, consumerVars,
                   handlerVars>>
    /\ UNCHANGED poseVars

\* lines 106-108
StopClear ==
    /\ opc = "clear"
    /\ server' = None
    /\ server_thread' = None
    /\ opc' = "idle"
    /\ stop_saw' = StopSees
    /\ UNCHANGED <<servers, last_call>>
    /\ UNCHANGED otherCapVars
    /\ UNCHANGED poseVars

(***************************************************************************)
(* The thread of line 96, which runs uvicorn.Server.run                    *)
(***************************************************************************)
InFlight(s) == {h \in Requests : hserver[h] = s /\ hpc[h] \notin {"idle", "done"}}

\* the server binds its socket and serves, or fails to bind (the port is
\* taken) and its thread ends
ServerStartup(s) ==
    /\ servers[s].state = "starting"
    /\ \E next \in {"serving", "ended"} :
          servers' = [servers EXCEPT ![s].state = next]
    /\ UNCHANGED <<server, server_thread, opc, last_call, stop_saw>>
    /\ UNCHANGED otherCapVars
    /\ UNCHANGED poseVars

\* the serving loop sees should_exit and stops accepting requests
ServerClose(s) ==
    /\ servers[s].state = "serving"
    /\ servers[s].should_exit
    /\ servers' = [servers EXCEPT ![s].state = "closing"]
    /\ UNCHANGED <<server, server_thread, opc, last_call, stop_saw>>
    /\ UNCHANGED otherCapVars
    /\ UNCHANGED poseVars

\* the requests in flight have been answered: run returns, the thread ends
ServerExit(s) ==
    /\ servers[s].state = "closing"
    /\ InFlight(s) = {}
    /\ servers' = [servers EXCEPT ![s].state = "ended"]
    /\ UNCHANGED <<server, server_thread, opc, last_call, stop_saw>>
    /\ UNCHANGED otherCapVars
    /\ UNCHANGED poseVars

(***************************************************************************)
(* Pose bridge values                                                      *)
(***************************************************************************)
PoseFree == [by |-> "nobody", id |-> 0]
PollerLock == [by |-> "ViveTrackerThread", id |-> 0]
GetLock(g) == [by |-> "do_GET", id |-> g]

NoMatrix == [kind |-> "None"]
Matrix(rows) == [kind |-> "list", rows |-> rows]

\* mDeviceToAbsoluteTracking values the tracker reports (3 rows of 4)
IdentityAt123 == <<<<1, 0, 0, 1>>, <<0, 1, 0, 2>>, <<0, 0, 1, 3>>>>
HalfTurnAtOrigin == <<<<-1, 0, 0, 0>>, <<0, -1, 0, 0>>, <<0, 0, 1, 0>>>>
HwMatrices == {IdentityAt123, HalfTurnAtOrigin}

\* what a faulty driver may report: all zeros
NullTransform == <<<<0, 0, 0, 0>>, <<0, 0, 0, 0>>, <<0, 0, 0, 0>>>>

HwSerial == "LHR-0001"

\* the device index find_first_tracker_index returns when it finds a tracker
FirstTracker == [kind |-> "int", value |-> 1]

\* variant: the record starts marked valid
InitialPoseDataValid ==
    [timestamp |-> 0, pose_matrix |-> NoMatrix, is_valid |-> TRUE,
     serial_number |-> ""]

\* variant: the record starts with a serial number
InitialPoseDataWithSerial ==
    [timestamp |-> 0, pose_matrix |-> NoMatrix, is_valid |-> FALSE,
     serial_number |-> "FAKE_SERIAL_123"]

\* lines 20-25
InitialPoseData ==
    [timestamp |-> 0, pose_matrix |-> NoMatrix, is_valid |-> FALSE,
     serial_number |-> ""]

NoSnapshot == [timestamp |-> -1, pose_matrix |-> NoMatrix, is_valid |-> FALSE]
NoPose == [matrix |-> IdentityAt123, bPoseIsValid |-> FALSE]

InitPose ==
    /\ latest_pose_data = InitialPoseData
    /\ pose_lock = PoseFree
    /\ shutdown_event = FALSE
    /\ session = "closed"
    /\ pnow = 1
    /\ tpc = "init"
    /\ vr_sys = FALSE
    /\ current_time_epoch = 0
    /\ p = NoPose
    /\ tracker_index = Unset
    /\ mpc = "serve_forever"
    /\ gpc = [g \in Getters |-> "idle"]
    /\ gpath = [g \in Getters |-> ""]
    /\ snapshot = [g \in Getters |-> NoSnapshot]
    /\ gresp = [g \in Getters |-> [status |-> 0]]
    /\ samples = <<>>

Init == InitCapture /\ InitPose

\* the state after construction and a call of start (lines 94-98) whose
\* server has come up
InitServing ==
    /\ InitFields
    /\ server = Server(1)
    /\ server_thread = Thread(1)
    /\ servers = <<[should_exit |-> FALSE, state |-> "serving"]>>
    /\ last_call = "start"
    /\ InitPose

\* daemon threads run for as long as main has not returned
ProcessAlive == mpc # "returned"

pollerLocals == <<vr_sys, current_time_epoch, p, tracker_index>>
getVars == <<gpc, gpath, snapshot, gresp>>

(***************************************************************************)
(* ViveTrackerThread.run (lines 53-123).  A step named "raises" is a call  *)
(* into OpenVR that raises; both except clauses (lines 108-118) do the     *)
(* same.                                                                   *)
(***************************************************************************)
\* line 57: openvr.init
PollerInit ==
    /\ ProcessAlive /\ tpc = "init"
    /\ \/ session' = "open" /\ tpc' = "VRSystem"
       \/ session' = session /\ tpc' = "except"
    /\ UNCHANGED <<latest_pose_data, pose_lock, shutdown_event, pnow,
                   pollerLocals, mpc, getVars, samples>>
    /\ UNCHANGED capVars

\* line 58: vr_sys = openvr.VRSystem()
PollerVRSystem ==
    /\ ProcessAlive /\ tpc = "VRSystem"
    /\ \/ vr_sys' = TRUE /\ tpc' = "find"
       \/ vr_sys' = vr_sys /\ tpc' = "except"
    /\ UNCHANGED <<latest_pose_data, pose_lock, shutdown_event, session, pnow,
                   current_time_epoch, p, tracker_index, mpc, getVars, samples>>
    /\ UNCHANGED capVars

\* lines 61-62 and 33-42: find_first_tracker_index finds a tracker, finds
\* none, or raises
PollerFind ==
    /\ ProcessAlive /\ tpc = "find"
    /\ \/ tracker_index' = FirstTracker /\ tpc' = "serial"
       \/ tracker_index' = None /\ tpc' = "no_tracker"
       \/ tracker_index' = tracker_index /\ tpc' = "except"
    /\ UNCHANGED <<latest_pose_data, pose_lock, shutdown_event, session, pnow,
                   vr_sys, current_time_epoch, p, mpc, getVars, samples>>
    /\ UNCHANGED capVars

\* variant: the return of line 68 is missing
PollerNoTrackerEntersLoop ==
    /\ ProcessAlive /\ tpc = "no_tracker"
    /\ pose_lock = PoseFree
    /\ latest_pose_data' = [latest_pose_data EXCEPT !.is_valid = FALSE]
    /\ tpc' = "while"
    /\ UNCHANGED <<pose_lock, shutdown_event, session, pnow, pollerLocals, mpc,
                   getVars, samples>>
    /\ UNCHANGED capVars

\* lines 66-68: no tracker; is_valid is cleared under the lock, then return
PollerNoTracker ==
    /\ ProcessAlive /\ tpc = "no_tracker"
    /\ pose_lock = PoseFree
    /\ latest_pose_data' = [latest_pose_data EXCEPT !.is_valid = FALSE]
    /\ tpc' = "finally"
    /\ UNCHANGED <<pose_lock, shutdown_event, session, pnow, pollerLocals, mpc,
                   getVars, samples>>
    /\ UNCHANGED capVars

\* variant: the serial number read is not stored in the record
PollerSerialNotStored ==
    /\ ProcessAlive /\ tpc = "serial"
    /\ \/ /\ pose_lock = PoseFree
          /\ tpc' = "while"
       \/ /\ tpc' = "except"
    /\ UNCHANGED <<latest_pose_data, pose_lock, shutdown_event, session, pnow,
                   pollerLocals, mpc, getVars, samples>>
    /\ UNCHANGED capVars

\* lines 70-75: the serial number is read and stored under the lock
PollerSerial ==
    /\ ProcessAlive /\ tpc = "serial"
    /\ \/ /\ pose_lock = PoseFree
          /\ latest_pose_data' = [latest_pose_data EXCEPT !.serial_number = HwSerial]
          /\ tpc' = "while"
       \/ /\ latest_pose_data' = latest_pose_data
          /\ tpc' = "except"
    /\ UNCHANGED <<pose_lock, shutdown_event, session, pnow, pollerLocals, mpc,
                   getVars, samples>>
    /\ UNCHANGED capVars

\* variant: the loop is while True
PollerWhileIgnoresShutdown ==
    /\ ProcessAlive /\ tpc = "while"
    /\ Len(samples) < MaxPolls
    /\ tpc' = "time"
    /\ UNCHANGED <<latest_pose_data, pose_lock, shutdown_event, session, pnow,
                   pollerLocals, mpc, getVars, samples>>
    /\ UNCHANGED capVars

\* line 77: while not shutdown_event.is_set()
PollerWhile ==
    /\ ProcessAlive /\ tpc = "while"
    /\ shutdown_event \/ Len(samples) < MaxPolls
    /\ tpc' = IF shutdown_event THEN "finally" ELSE "time"
    /\ UNCHANGED <<latest_pose_data, pose_lock, shutdown_event, session, pnow,
                   pollerLocals, mpc, getVars, samples>>
    /\ UNCHANGED capVars

\* line 78: current_time_epoch = time.time()
PollerTime ==
    /\ ProcessAlive /\ tpc = "time"
    /\ current_time_epoch' = pnow
    /\ pnow' = pnow + 1
    /\ tpc' = "poll"
    /\ UNCHANGED <<latest_pose_data, pose_lock, shutdown_event, session,
                   vr_sys, p, tracker_index, mpc, getVars, samples>>
    /\ UNCHANGED capVars

\* lines 79-89: the pose of the tracker is read, or the call raises
PollerPoll ==
    /\ ProcessAlive /\ tpc = "poll"
    /\ \/ /\ \E m \in HwMatrices, valid \in BOOLEAN :
                p' = [matrix |-> m, bPoseIsValid |-> valid]
          /\ tpc' = "lock"
       \/ /\ p' = p
          /\ tpc' = "except"
    /\ UNCHANGED <<latest_pose_data, pose_lock, shutdown_event, session, pnow,
                   vr_sys, current_time_epoch, tracker_index, mpc, getVars,
                   samples>>
    /\ UNCHANGED capVars

\* lines 79-89 with a driver that reports a null transform, whatever the
\* validity flag it sets
PollerPollNull ==
    /\ ProcessAlive /\ tpc = "poll"
    /\ \E valid \in BOOLEAN :
          p' = [matrix |-> NullTransform, bPoseIsValid |-> valid]
    /\ tpc' = "lock"
    /\ UNCHANGED <<latest_pose_data, pose_lock, shutdown_event, session, pnow,
                   vr_sys, current_time_epoch, tracker_index, mpc, getVars,
                   samples>>
    /\ UNCHANGED capVars

\* variant: the writes are made without the lock
PollerLockUnguarded ==
    /\ ProcessAlive /\ tpc = "lock"
    /\ tpc' = "timestamp"
    /\ UNCHANGED <<latest_pose_data, pose_lock, shutdown_event, session, pnow,
                   pollerLocals, mpc, getVars, samples>>
    /\ UNCHANGED capVars

\* line 91: with pose_lock
PollerLockAcquire ==
    /\ ProcessAlive /\ tpc = "lock"
    /\ pose_lock = PoseFree
    /\ pose_lock' = PollerLock
    /\ tpc' = "timestamp"
    /\ UNCHANGED <<latest_pose_data, shutdown_event, session, pnow,
                   pollerLocals, mpc, getVars, samples>>
    /\ UNCHANGED capVars

\* variant: the sample is stamped with the time of the write
PollerWriteTimestampAtPublish ==
    /\ ProcessAlive /\ tpc = "timestamp"
    /\ latest_pose_data' = [latest_pose_data EXCEPT !.timestamp = pnow]
    /\ samples' = Append(samples, [timestamp |-> pnow,
                                   pose_matrix |-> Matrix(p.matrix),
                                   is_valid |-> p.bPoseIsValid])
    /\ tpc' = "pose_matrix"
    /\ UNCHANGED <<pose_lock, shutdown_event, session, pnow, pollerLocals, mpc,
                   getVars>>
    /\ UNCHANGED capVars

\* line 92
PollerWriteTimestamp ==
    /\ ProcessAlive /\ tpc = "timestamp"
    /\ latest_pose_data' = [latest_pose_data EXCEPT !.timestamp = current_time_epoch]
    /\ samples' = Append(samples, [timestamp |-> current_time_epoch,
                                   pose_matrix |-> Matrix(p.matrix),
                                   is_valid |-> p.bPoseIsValid])
    /\ tpc' = "pose_matrix"
    /\ UNCHANGED <<pose_lock, shutdown_event, session, pnow, pollerLocals, mpc,
                   getVars>>
    /\ UNCHANGED capVars

\* line 93
PollerWriteMatrix ==
    /\ ProcessAlive /\ tpc = "pose_matrix"
    /\ latest_pose_data' = [latest_pose_data EXCEPT !.pose_matrix = Matrix(p.matrix)]
    /\ tpc' = "is_valid"
    /\ UNCHANGED <<pose_lock, shutdown_event, session, pnow, pollerLocals, mpc,
                   getVars, samples>>
    /\ UNCHANGED capVars

\* line 94, then the with block ends
PollerWriteValid ==
    /\ ProcessAlive /\ tpc = "is_valid"
    /\ latest_pose_data' = [latest_pose_data EXCEPT !.is_valid = p.bPoseIsValid]
    /\ pose_lock' = PoseFree
    /\ tpc' = "sleep"
    /\ UNCHANGED <<shutdown_event, session, pnow, pollerLocals, mpc, getVars,
                   samples>>
    /\ UNCHANGED capVars

\* line 106: time.sleep(0.01)
PollerSleep ==
    /\ ProcessAlive /\ tpc = "sleep"
    /\ tpc' = "while"
    /\ UNCHANGED <<latest_pose_data, pose_lock, shutdown_event, session, pnow,
                   pollerLocals, mpc, getVars, samples>>
    /\ UNCHANGED capVars

\* variant: the except clauses reset the serial number too
PollerExceptClearsSerial ==
    /\ ProcessAlive /\ tpc = "except"
    /\ pose_lock = PoseFree
    /\ latest_pose_data' = [latest_pose_data EXCEPT !.is_valid = FALSE,
                                                    !.serial_number = ""]
    /\ tpc' = "finally"
    /\ UNCHANGED <<pose_lock, shutdown_event, session, pnow, pollerLocals, mpc,
                   getVars, samples>>
    /\ UNCHANGED capVars

\* variant: the except clauses leave is_valid as it is
PollerExceptKeepsValid ==
    /\ ProcessAlive /\ tpc = "except"
    /\ tpc' = "finally"
    /\ UNCHANGED <<latest_pose_data, pose_lock, shutdown_event, session, pnow,
                   pollerLocals, mpc, getVars, samples>>
    /\ UNCHANGED capVars

\* lines 108-118: is_valid is cleared under the lock
PollerExcept ==
    /\ ProcessAlive /\ tpc = "except"
    /\ pose_lock = PoseFree
    /\ latest_pose_data' = [latest_pose_data EXCEPT !.is_valid = FALSE]
    /\ tpc' = "finally"
    /\ UNCHANGED <<pose_lock, shutdown_event, session, pnow, pollerLocals, mpc,
                   getVars, samples>>
    /\ UNCHANGED capVars

\* lines 119-123
PollerFinally ==
    /\ ProcessAlive /\ tpc = "finally"
    /\ session' = IF vr_sys THEN "closed" ELSE session
    /\ tpc' = "finished"
    /\ UNCHANGED <<latest_pose_data, pose_lock, shutdown_event, pnow,
                   pollerLocals, mpc, getVars, samples>>
    /\ UNCHANGED capVars

(***************************************************************************)
(* PoseHTTPRequestHandler.do_GET (lines 144-238), one thread per request   *)
(***************************************************************************)
\* urllib.parse.urlparse(self.path).path on the paths a client requests
UrlPath(path) ==
    CASE path = "/pose?epoch=5" -> "/pose"
      [] OTHER -> path

ClientPaths == {"/pose", "/pose?epoch=5", "/"}

\* lines 130-135: the headers _set_cors_headers sends
CorsHeaders ==
    [allow_origin |-> "*",
     allow_methods |-> "GET, POST, OPTIONS",
     allow_headers |-> "Content-Type",
     max_age |-> "3600"]

\* lines 137-142: do_OPTIONS, on any path, reads nothing of the record
DoOptions(g, path) ==
    /\ ProcessAlive /\ mpc = "serve_forever"
    /\ gpc[g] = "idle"
    /\ gpath' = [gpath EXCEPT ![g] = path]
    /\ gpc' = [gpc EXCEPT ![g] = "done"]
    /\ gresp' = [gresp EXCEPT ![g] =
                    [status |-> 200, cors |-> CorsHeaders, content_length |-> "0"]]
    /\ UNCHANGED <<latest_pose_data, pose_lock, shutdown_event, session, pnow,
                   tpc, pollerLocals, mpc, snapshot, samples>>
    /\ UNCHANGED capVars

\* lines 144-151: the request is accepted by serve_forever and handled
DoGet(g, path) ==
    /\ ProcessAlive /\ mpc = "serve_forever"
    /\ gpc[g] = "idle"
    /\ gpath' = [gpath EXCEPT ![g] = path]
    /\ IF UrlPath(path) = "/pose"
       THEN /\ gpc' = [gpc EXCEPT ![g] = "lock"]
            /\ gresp' = gresp
       ELSE /\ gpc' = [gpc EXCEPT ![g] = "done"]
            /\ gresp' = [gresp EXCEPT ![g] =
                            [status |-> 404, text |-> "Endpoint not found. Use /pose"]]
    /\ UNCHANGED <<latest_pose_data, pose_lock, shutdown_event, session, pnow,
                   tpc, pollerLocals, mpc, snapshot, samples>>
    /\ UNCHANGED capVars

\* line 172: with pose_lock
GetLockAcquire(g) ==
    /\ ProcessAlive /\ gpc[g] = "lock"
    /\ pose_lock = PoseFree
    /\ pose_lock' = GetLock(g)
    /\ gpc' = [gpc EXCEPT ![g] = "timestamp"]
    /\ UNCHANGED <<latest_pose_data, shutdown_event, session, pnow,
                   tpc, pollerLocals, mpc, gpath, snapshot, gresp, samples>>
    /\ UNCHANGED capVars

\* line 173
GetReadTimestamp(g) ==
    /\ ProcessAlive /\ gpc[g] = "timestamp"
    /\ snapshot' = [snapshot EXCEPT ![g].timestamp = latest_pose_data.timestamp]
    /\ gpc' = [gpc EXCEPT ![g] = "pose_matrix"]
    /\ UNCHANGED <<latest_pose_data, pose_lock, shutdown_event, session, pnow,
                   tpc, pollerLocals, mpc, gpath, gresp, samples>>
    /\ UNCHANGED capVars

\* line 174
GetReadMatrix(g) ==
    /\ ProcessAlive /\ gpc[g] = "pose_matrix"
    /\ snapshot' = [snapshot EXCEPT ![g].pose_matrix = latest_pose_data.pose_matrix]
    /\ gpc' = [gpc EXCEPT ![g] = "is_valid"]
    /\ UNCHANGED <<latest_pose_data, pose_lock, shutdown_event, session, pnow,
                   tpc, pollerLocals, mpc, gpath, gresp, samples>>
    /\ UNCHANGED capVars

\* line 175, then the with block ends
GetReadValid(g) ==
    /\ ProcessAlive /\ gpc[g] = "is_valid"
    /\ snapshot' = [snapshot EXCEPT ![g].is_valid = latest_pose_data.is_valid]
    /\ pose_lock' = PoseFree
    /\ gpc' = [gpc EXCEPT ![g] = "respond"]
    /\ UNCHANGED <<latest_pose_data, shutdown_event, session, pnow,
                   tpc, pollerLocals, mpc, gpath, gresp, samples>>
    /\ UNCHANGED capVars

\* Rotation.from_matrix(m).as_quat() on the rotations the tracker reports;
\* from_matrix raises ValueError for a matrix whose determinant is not
\* positive
AsQuat(rotation_mtx) ==
    CASE rotation_mtx = <<<<1, 0, 0>>, <<0, 1, 0>>, <<0, 0, 1>>>> ->
            [ok |-> TRUE, x |-> 0, y |-> 0, z |-> 0, w |-> 1]
      [] rotation_mtx = <<<<-1, 0, 0>>, <<0, -1, 0>>, <<0, 0, 1>>>> ->
            [ok |-> TRUE, x |-> 0, y |-> 0, z |-> 1, w |-> 0]
      [] OTHER ->
            [ok |-> FALSE,
             message |-> "Non-positive determinant (left-handed or null coordinate frame) in rotation matrix 0"]

\* row[:3]
FirstThree(row) == SubSeq(row, 1, IF Len(row) < 3 THEN Len(row) ELSE 3)

\* variant: the translation is read from column 0
PositionFromFirstColumn(pose_matrix) ==
    [x |-> pose_matrix[1][1], y |-> pose_matrix[2][1], z |-> pose_matrix[3][1]]

\* lines 180-183: the translation column of the transform
Position(pose_matrix) ==
    [x |-> pose_matrix[1][4], y |-> pose_matrix[2][4], z |-> pose_matrix[3][4]]

\* variant: the serial number is never added
NotAvailableNoSerial(serial_number) ==
    [status |-> 404, error |-> "Tracker pose not available or invalid"]

\* lines 225-232: the 404 payload, with the serial number when the record
\* holds one
NotAvailable(serial_number) ==
    IF serial_number # ""
    THEN [status |-> 404, error |-> "Tracker pose not available or invalid",
          serial_number |-> serial_number]
    ELSE [status |-> 404, error |-> "Tracker pose not available or invalid"]

\* variant: a conversion fault is answered like a missing sample
InternalErrorAsNotAvailable(details) ==
    [status |-> 404, error |-> "Tracker pose not available or invalid"]

\* lines 212-222: the 500 payload
InternalError(details) ==
    [status |-> 500,
     error |-> "Internal server error processing pose data",
     details |-> details]

\* lines 177-232: the response for the locals read, with the serial number
\* the record holds when the response is built
Response(snap, serial_number) ==
    IF snap.is_valid /\ snap.pose_matrix # NoMatrix /\ snap.pose_matrix.rows # <<>>
    THEN LET pose_matrix == snap.pose_matrix.rows
         IN  IF Len(pose_matrix) >= 3
                /\ \A i \in 1..3 : Len(pose_matrix[i]) >= 4
             THEN LET quat_xyzw == AsQuat([i \in 1..3 |-> FirstThree(pose_matrix[i])])
                  IN  IF quat_xyzw.ok
                      THEN [status |-> 200,
                            data |-> [timestamp |-> snap.timestamp,
                                      pose |-> [position |-> Position(pose_matrix),
                                                rotation |-> [w |-> quat_xyzw.w,
                                                              x |-> quat_xyzw.x,
                                                              y |-> quat_xyzw.y,
                                                              z |-> quat_xyzw.z]],
                                      serial_number |-> serial_number]]
                      ELSE InternalError(quat_xyzw.message)
             ELSE InternalError("list index out of range")
    ELSE NotAvailable(serial_number)

GetRespond(g) ==
    /\ ProcessAlive /\ gpc[g] = "respond"
    /\ gresp' = [gresp EXCEPT ![g] = Response(snapshot[g], latest_pose_data.serial_number)]
    /\ gpc' = [gpc EXCEPT ![g] = "done"]
    /\ UNCHANGED <<latest_pose_data, pose_lock, shutdown_event, session, pnow,
                   tpc, pollerLocals, mpc, gpath, snapshot, samples>>
    /\ UNCHANGED capVars

(***************************************************************************)
(* main (lines 252-279)                                                    *)
(***************************************************************************)
\* lines 267-271: serve_forever is interrupted; shutdown_event.set()
MainInterrupt ==
    /\ mpc = "serve_forever"
    /\ shutdown_event' = TRUE
    /\ mpc' = "shutdown"
    /\ UNCHANGED <<latest_pose_data, pose_lock, session, pnow, tpc,
                   pollerLocals, getVars, samples>>
    /\ UNCHANGED capVars

\* serve_forever has returned: httpd.shutdown() waits for nothing else
ServeForeverReturned == mpc # "serve_forever"

\* line 273: httpd.shutdown()
MainShutdown ==
    /\ mpc = "shutdown"
    /\ ServeForeverReturned
    /\ mpc' = "server_close"
    /\ UNCHANGED <<latest_pose_data, pose_lock, shutdown_event, session, pnow,
                   tpc, pollerLocals, getVars, samples>>
    /\ UNCHANGED capVars

\* line 274: httpd.server_close() releases the port without waiting for
\* the handler threads, which are daemon threads (lines 244-246)
MainServerClose ==
    /\ mpc = "server_close"
    /\ mpc' = "join"
    /\ UNCHANGED <<latest_pose_data, pose_lock, shutdown_event, session, pnow,
                   tpc, pollerLocals, getVars, samples>>
    /\ UNCHANGED capVars

\* variant: the join of line 276 has no timeout
MainJoinUnbounded ==
    /\ mpc = "join"
    /\ tpc = "finished"
    /\ mpc' = "returned"
    /\ UNCHANGED <<latest_pose_data, pose_lock, shutdown_event, session, pnow,
                   tpc, pollerLocals, getVars, samples>>
    /\ UNCHANGED capVars

\* lines 276-279: the join returns when the poller has finished or after
\* the timeout, and main returns
MainJoin ==
    /\ mpc = "join"
    /\ mpc' = "returned"
    /\ UNCHANGED <<latest_pose_data, pose_lock, shutdown_event, session, pnow,
                   tpc, pollerLocals, getVars, samples>>
    /\ UNCHANGED capVars

(***************************************************************************)
(* The pose bridge                                                         *)
(***************************************************************************)
PoseNext(paths, getters) ==
    \/ PollerInit
    \/ PollerVRSystem
    \/ PollerFind
    \/ PollerNoTracker
    \/ PollerSerial
    \/ PollerWhile
    \/ PollerTime
    \/ PollerPoll
    \/ PollerLockAcquire
    \/ PollerWriteTimestamp
    \/ PollerWriteMatrix
    \/ PollerWriteValid
    \/ PollerSleep
    \/ PollerExcept
    \/ PollerFinally
    \/ \E g \in getters, path \in paths : DoGet(g, path)
    \/ \E g \in getters : GetLockAcquire(g)
    \/ \E g \in getters : GetReadTimestamp(g)
    \/ \E g \in getters : GetReadMatrix(g)
    \/ \E g \in getters : GetReadValid(g)
    \/ \E g \in getters : GetRespond(g)
    \/ MainInterrupt
    \/ MainShutdown
    \/ MainServerClose
    \/ MainJoin

\* every path against two handler threads
NextPose == PoseNext(ClientPaths, Getters)
PoseSpec == Init /\ [][NextPose]_vars

\* the bridge as a browser client meets it: pre-flight requests as well as
\* GET requests, and a tracker driver that may report a null transform
NextBrowser ==
    \/ PoseNext({"/pose"}, Getters)
    \/ PollerPollNull
    \/ \E g \in Getters, path \in ClientPaths : DoOptions(g, path)
BrowserSpec == Init /\ [][NextBrowser]_vars

\* a handler thread runs on: it takes the lock when it is free, reads and
\* responds
GetterStep ==
    \E g \in Getters :
        \/ GetLockAcquire(g) \/ GetReadTimestamp(g) \/ GetReadMatrix(g)
        \/ GetReadValid(g) \/ GetRespond(g)

\* the poller inside its with block (lines 92-94) runs on
LockedPollerStep ==
    PollerWriteTimestamp \/ PollerWriteMatrix \/ PollerWriteValid

\* the poller thread runs on: its hardware calls return or raise, and it
\* takes the lock when it is free
PollerStep ==
    \/ PollerInit \/ PollerVRSystem \/ PollerFind \/ PollerNoTracker
    \/ PollerSerial \/ PollerWhile \/ PollerTime \/ PollerPoll
    \/ PollerLockAcquire \/ PollerWriteTimestamp \/ PollerWriteMatrix
    \/ PollerWriteValid \/ PollerSleep \/ PollerExcept \/ PollerFinally

\* one handler thread, with the scheduling the threads give
NextServe == PoseNext({"/pose", "/"}, {1})
ServeSpec ==
    /\ Init /\ [][NextServe]_vars
    /\ WF_vars(GetterStep)
    /\ WF_vars(LockedPollerStep)

\* main runs on once serve_forever is interrupted; the poller's hardware
\* calls may never return
MainStep == MainShutdown \/ MainServerClose \/ MainJoin

TerminationSpec ==
    /\ Init /\ [][NextServe]_vars
    /\ WF_vars(MainStep)

\* one handler thread and a poller whose hardware calls return
ShutdownSpec ==
    /\ Init /\ [][NextServe]_vars
    /\ WF_vars(GetterStep)
    /\ WF_vars(PollerStep)

(***************************************************************************)
(* The capture bridge                                                      *)
(***************************************************************************)
CaptureSteps(handlers, requests, callers) ==
    \/ \E h \in handlers, req \in requests : CaptureBegin(h, req)
    \/ \E h \in handlers : CaptureForm(h)
    \/ \E h \in handlers : CaptureRead(h)
    \/ \E h \in handlers : CaptureBody(h)
    \/ \E h \in handlers : CaptureAcquire(h)
    \/ \E h \in handlers : CaptureStore(h)
    \/ \E h \in handlers : CaptureSet(h)
    \/ \E h \in handlers : CaptureExit(h)
    \/ \E c \in callers : GetNextImage(c)
    \/ \E c \in callers : EventWait(c)
    \/ \E c \in callers : ConsumerAcquire(c)
    \/ \E c \in callers : ConsumerTake(c)
    \/ \E c \in callers : ConsumerClear(c)
    \/ \E c \in callers : ConsumerReturn(c)

CaptureNext(requests, callers) == CaptureSteps(Requests, requests, callers)

\* publishing requests against several consumer threads
NextCapture == CaptureNext(PublishingRequests, Consumers)
CaptureSpec == InitServing /\ [][NextCapture]_vars

\* every kind of request against one consumer thread
NextIngest == CaptureNext(ClientRequests, {1})
IngestSpec == InitServing /\ [][NextIngest]_vars

\* a request received by the server is run to its end: the client's payload
\* arrives at each await and the event loop resumes the coroutine
HandlerStep ==
    \E h \in Requests :
        \/ CaptureForm(h) \/ CaptureRead(h) \/ CaptureBody(h)
        \/ CaptureAcquire(h) \/ CaptureStore(h) \/ CaptureSet(h)
        \/ CaptureExit(h)

\* a thread inside the with block of get_next_image (lines 113-115) runs on
LockedConsumerStep == \E c \in Consumers : ConsumerTake(c) \/ ConsumerClear(c)

\* one request for each way the handler ends: acknowledged after body()
\* and after form() and read(), refused before an await, after form(),
\* after body(), by the decoder and by the metadata assignment
EnvelopeRequests ==
    { Req("image/png", "absent", "png-rgb", NoHeader, NoHeader),
      Req("multipart/form-data; boundary=b", "upload", "png-rgb", NoHeader, NoHeader),
      Req("text/plain", "absent", "png-rgb", NoHeader, NoHeader),
      Req("multipart/form-data; boundary=b", "absent", "", NoHeader, NoHeader),
      Req("image/png", "absent", "", NoHeader, NoHeader),
      Req("image/png", "absent", "garbage", NoHeader, NoHeader),
      Req("image/png", "absent", "png-rgb", "[1]", Json) }

\* these requests against one consumer thread that may never call, with
\* the scheduling the event loop and the threads give
NextEnvelope == CaptureNext(EnvelopeRequests, {1})
EnvelopeSpec ==
    /\ InitServing /\ [][NextEnvelope]_vars
    /\ WF_vars(HandlerStep)
    /\ WF_vars(LockedConsumerStep)

\* start and stop called in any order, against one request and one consumer
\* thread
NextLifecycle ==
    \/ Start
    \/ StopCall \/ StopTest \/ StopShouldExit \/ StopJoin \/ StopClear
    \/ \E s \in DOMAIN servers : ServerStartup(s)
    \/ \E s \in DOMAIN servers : ServerClose(s)
    \/ \E s \in DOMAIN servers : ServerExit(s)
    \/ CaptureSteps({1}, PublishingRequests, {1})

LifecycleSpec == Init /\ [][NextLifecycle]_vars


(***************************************************************************)
(* Claims about the slot under concurrency (CaptureSpec)                   *)
(***************************************************************************)
Taken == 1..Len(takenLog)

\* C1: latest-wins.  Whatever a get_next_image call removes from the slot is
\* the frame of the last publish made before it read the slot, however many
\* publishes came since the previous removal; each later removal gets a
\* later publish, so an overwritten frame and a frame already handed out
\* are never returned; and a call that returns, returns the frame it removed.
C1_LatestWins ==
    /\ \A i \in Taken :
          takenLog[i].request = published[takenLog[i].index].request
    /\ \A i, j \in Taken : i < j => takenLog[i].index < takenLog[j].index
    /\ \A c \in Consumers :
          cpc[c] = "returned" => cret[c].request = published[ctake[c]].request

\* two publishes, then a call that returns the second frame while a second
\* call, begun after both publishes, is blocked on the cleared event
C1_Witness ==
    \E c, d \in Consumers :
        /\ c # d
        /\ Len(published) = 2
        /\ takenLog = <<[index |-> 2, request |-> published[2].request]>>
        /\ cstart[c].npub = 2 /\ cstart[d].npub = 2
        /\ cpc[c] = "returned" /\ cret[c].request = published[2].request
        /\ cpc[d] = "wait" /\ ~event

\* C2: a call that began on an empty slot returns only a frame published
\* after it began, and unless a further publish has happened since it read
\* the slot, the slot is None and the event clear once it has returned.
C2_EmptySlotCallWaitsForPublish ==
    \A c \in Consumers :
        (cpc[c] = "returned" /\ cstart[c].empty) =>
            /\ ctake[c] > cstart[c].npub
            /\ cret[c].value[2] = published[ctake[c]].metadata
            /\ (Len(published) = ctake[c] =>
                    current_probe_data = None /\ ~event)

C2_Witness ==
    \E c \in Consumers :
        /\ cpc[c] = "returned" /\ cstart[c].empty
        /\ cstart[c].npub = 0 /\ ctake[c] = 1 /\ Len(published) = 1
        /\ current_probe_data = None /\ ~event /\ lock = Free

\* C3: of two calls blocked on the empty slot when a single frame is
\* published, the one that does not get the frame keeps waiting: it never
\* reads the emptied slot (and so never raises on None).
C3_OneWaiterPerFrame ==
    \A c, d \in Consumers :
        ( /\ c # d
          /\ cstart[c].empty /\ cstart[d].empty
          /\ cstart[c].npub = cstart[d].npub
          /\ Len(published) = cstart[c].npub + 1
          /\ cpc[d] \in {"clear", "reduce", "raised"} )
        => image_data[d] # None

\* C10: frames are written to the slot in the order of their receipt times,
\* so the frame in the slot carries the largest receipt time published so far.
C10_PublishOrderIsReceiptOrder ==
    /\ \A i, j \in 1..Len(published) :
          i < j => htime[published[i].request] <= htime[published[j].request]
    /\ current_probe_data # None =>
          \A i \in 1..Len(published) :
              published[i].metadata["epoch"] <= current_probe_data.metadata["epoch"]


(***************************************************************************)
(* Claims about ingestion (IngestSpec)                                     *)
(***************************************************************************)
Published == 1..Len(published)

NothingPublished == UNCHANGED <<current_probe_data, event, lock, published>>

\* C5: a request whose content type is neither multipart/form-data nor
\* image/* is answered, in the step that receives it, with the error
\* envelope "Unsupported content type: <type>", and that step leaves the
\* slot, the event and the lock as they were.
C5_UnsupportedTypeRejected ==
    [][\A h \in Requests :
          (hpc[h] = "idle" /\ hpc'[h] # "idle"
              /\ hreq'[h].content_type \in {"text/plain", NoHeader})
          => /\ hpc'[h] = "done"
             /\ hresp'[h] =
                  [status |-> "error",
                   message |-> IF hreq'[h].content_type = NoHeader
                               THEN "Unsupported content type: "
                               ELSE "Unsupported content type: text/plain"]
             /\ NothingPublished]_vars

\* a text/plain request was rejected and the frame of the request before
\* it is in the slot, signalled, for the next get_next_image
C5_Witness ==
    /\ hpc[2] = "done" /\ hreq[2].content_type = "text/plain"
    /\ hresp[2] = Error("Unsupported content type: text/plain")
    /\ hresp[1] = Success
    /\ current_probe_data # None /\ current_probe_data.request = 1
    /\ event /\ lock = Free

\* C6: a request whose payload does not decode returns an error envelope
\* with a message in the step that reads the payload, without touching the
\* slot, the event or the lock.
C6_UndecodableRejected ==
    [][\A h \in Requests :
          (hpc[h] \in {"read", "body"} /\ hpc'[h] # hpc[h]
              /\ hreq[h].data \notin {"png-rgb", "png-gray"})
          => /\ hpc'[h] = "done"
             /\ hresp'[h].status = "error"
             /\ DOMAIN hresp'[h] = {"status", "message"}
             /\ NothingPublished]_vars

\* an undecodable request got its error envelope and a later request was
\* published and acknowledged
C6_Witness ==
    /\ hpc[1] = "done" /\ hreq[1].data = "garbage"
    /\ hresp[1] = Error("cannot identify image file")
    /\ hpc[2] = "done" /\ hresp[2] = Success
    /\ Len(published) = 1 /\ published[1].request = 2

MalformedMetadata(req) ==
    /\ req.x_metadata = "{bad" /\ req.x_metadata_content_type = "application/json"
    /\ req.data \in {"png-rgb", "png-gray"}

\* C7: a request with a decodable image and a declared-JSON X-Metadata
\* header that is not JSON is acknowledged with success, and its frame is
\* published with metadata made of an error field, the raw header text and
\* the receipt time.
C7_MalformedMetadataAccepted ==
    \A h \in Requests :
        (hpc[h] = "done" /\ MalformedMetadata(hreq[h])) =>
            /\ hresp[h] = Success
            /\ \E i \in Published :
                  /\ published[i].request = h
                  /\ DOMAIN published[i].metadata = {"error", "raw", "epoch"}
                  /\ published[i].metadata["raw"] = hreq[h].x_metadata
                  /\ published[i].metadata["epoch"] = htime[h]

C7_Witness ==
    \E h \in Requests :
        /\ hpc[h] = "done" /\ MalformedMetadata(hreq[h])
        /\ cpc[1] = "returned" /\ cret[1].request = h
        /\ "error" \in DOMAIN cret[1].value[2]

NonObjectMetadata(req) ==
    /\ req.x_metadata \in {"[1]", "7", "\"s\""}
    /\ req.x_metadata_content_type = "application/json"
    /\ req.data \in {"png-rgb", "png-gray"}

\* C31: a request with a decodable image and a declared-JSON X-Metadata
\* header that is valid JSON but not an object (a list, a number, a string)
\* is answered with the success envelope and its frame is published, like a
\* request with malformed or absent metadata.
C31_NonObjectMetadataAccepted ==
    \A h \in Requests :
        (hpc[h] = "done" /\ NonObjectMetadata(hreq[h])) =>
            /\ hresp[h] = Success
            /\ \E i \in Published : published[i].request = h

(***************************************************************************)
(* Claims about the pose record (PoseSpec)                                 *)
(***************************************************************************)
\* handler g has read its three locals under the lock
HasSnapshot(g) == gpc[g] \in {"respond", "done"} /\ UrlPath(gpath[g]) = "/pose"

InitialTriple ==
    [timestamp |-> InitialPoseData.timestamp,
     pose_matrix |-> InitialPoseData.pose_matrix,
     is_valid |-> InitialPoseData.is_valid]

Written == {samples[i] : i \in 1..Len(samples)}

\* the last sample after the poller has cleared is_valid on its way out
\* (lines 111 and 118)
Invalidated ==
    IF tpc \in {"finally", "finished"} /\ samples # <<>>
    THEN {[samples[Len(samples)] EXCEPT !.is_valid = FALSE]}
    ELSE {}

\* C4 as stated: the (timestamp, pose_matrix, is_valid) a handler uses was
\* written by one single loop iteration, or is the initial record.
C4_SnapshotOfOneIteration ==
    \A g \in Getters :
        HasSnapshot(g) => snapshot[g] \in {InitialTriple} \cup Written

\* C4 as amended: the (timestamp, pose_matrix, is_valid) a handler uses is
\* the initial record, or what one single loop iteration wrote, or what the
\* last iteration wrote with is_valid cleared by the poller's except
\* clause; it never has the timestamp of one iteration with the matrix or
\* the flag of another.
C4_SnapshotNeverMixesIterations ==
    \A g \in Getters :
        HasSnapshot(g) =>
            snapshot[g] \in {InitialTriple} \cup Written \cup Invalidated

\* a handler answered 200 from the first iteration's sample after the
\* poller had started to write the second
C4_Witness ==
    \E g \in Getters :
        /\ gpc[g] = "done" /\ gresp[g].status = 200
        /\ Len(samples) = 2
        /\ snapshot[g] = samples[1]
        /\ samples[2].pose_matrix # samples[1].pose_matrix

(***************************************************************************)
(* Claims about what get_next_image hands over                             *)
(***************************************************************************)
\* the call of consumer c has finished, by a return or by an exception,
\* after it took a published frame out of the slot
FinishedWithFrame(c) ==
    cpc[c] \in {"returned", "raised"} /\ image_data[c] # None

\* C11: for every published frame, 2-D or 3-D, the call that takes it
\* returns (reduced_pixels, metadata) with reduced_pixels a 2-D grid of the
\* image's pixels and metadata the mapping stored with the frame.
\* (CaptureSpec)
C11_ReducesEveryFrame ==
    \A c \in Consumers :
        FinishedWithFrame(c) =>
            /\ cret[c].kind = "returned"
            /\ cret[c].value =
                   <<[ndim |-> 2, pixels |-> image_data[c].image_array.pixels],
                     image_data[c].metadata>>

\* C12: with a single consumer calling in a loop, a call that has woken
\* never reads an empty slot, the frames taken are published frames each
\* taken once, a call that returns yields the frame it took, and there are
\* never more frames handed over than publishes.  (IngestSpec)
C12_SingleConsumerLoop ==
    /\ cpc[1] \in {"clear", "reduce", "returned", "raised"} =>
           image_data[1] # None
    /\ \A i \in Taken :
           /\ takenLog[i].index \in Published
           /\ published[takenLog[i].index].request = takenLog[i].request
    /\ \A i, j \in Taken : i < j => takenLog[i].index < takenLog[j].index
    /\ Len(takenLog) <= Len(published)
    /\ cpc[1] = "returned" =>
           /\ ctake[1] \in Published
           /\ cret[1].request = published[ctake[1]].request
           /\ cret[1].value[2] = published[ctake[1]].metadata

\* the consumer's second call has returned the second published frame
C12_Witness ==
    /\ Len(takenLog) = 2
    /\ takenLog[1].index = 1 /\ takenLog[2].index = 2
    /\ cpc[1] = "returned"
    /\ cret[1].request = published[2].request

(***************************************************************************)
(* Claims about the envelope (EnvelopeSpec)                                *)
(***************************************************************************)
\* the two envelopes of lines 88 and 46-63, 89-91
Envelope(r) ==
    \/ r = Success
    \/ DOMAIN r = {"status", "message"} /\ r.status = "error"

\* C13: every request received gets an envelope, {status: success} or
\* {status: error, message}, and only one: once returned it does not
\* change; this needs no call of get_next_image; the handler holds the
\* lock at no await and never waits for the event.
C13_EveryRequestAnswered ==
    /\ \A h \in Requests :
           hpc[h] # "idle" ~> (hpc[h] = "done" /\ Envelope(hresp[h]))
    /\ [][\A h \in Requests :
             hpc[h] = "done" => hpc'[h] = "done" /\ hresp'[h] = hresp[h]]_vars
    /\ [](\A h \in Requests :
             /\ hpc[h] \in {"form", "read", "body"} => lock # HandlerLock(h)
             /\ hpc[h] # "done" => hresp[h] = NoResponse)

\* one request acknowledged and one refused while no consumer ever called
C13_Witness ==
    /\ cpc[1] = "idle"
    /\ hpc[1] = "done" /\ hresp[1] = Success
    /\ hpc[2] = "done" /\ hresp[2].status = "error"
    /\ current_probe_data # None

(***************************************************************************)
(* Claims about the GET /pose responses (PoseSpec)                         *)
(***************************************************************************)
NotAvailableText == "Tracker pose not available or invalid"

\* handler g sends its /pose response in this step
Responds(g) ==
    gpc[g] = "respond" /\ gpc'[g] = "done" /\ UrlPath(gpath[g]) = "/pose"

\* handler g has sent its /pose response
Responded(g) == gpc[g] = "done" /\ UrlPath(gpath[g]) = "/pose"

\* C14: when the handler read no sample or a sample marked invalid, GET
\* /pose answers 404 with the error payload, and the payload has
\* serial_number exactly when the record holds a non-empty serial number
\* as the payload is built.
C14_NotFoundWithSerial ==
    [][\A g \in Getters :
         (Responds(g) /\ (snapshot[g].pose_matrix = NoMatrix
                          \/ ~snapshot[g].is_valid)) =>
             /\ gresp'[g].status = 404
             /\ gresp'[g].error = NotAvailableText
             /\ ("serial_number" \in DOMAIN gresp'[g])
                   <=> (latest_pose_data.serial_number # "")
             /\ ("serial_number" \in DOMAIN gresp'[g]) =>
                   gresp'[g].serial_number = latest_pose_data.serial_number
             /\ DOMAIN gresp'[g] \subseteq {"status", "error", "serial_number"}]_vars

\* a 404 with the serial number for a sample the tracker reported invalid,
\* and a 404 without it for a handler that read before the serial was stored
C14_Witness ==
    \E g, k \in Getters :
        /\ Responded(g) /\ gresp[g].status = 404
        /\ snapshot[g] \in Written /\ ~snapshot[g].is_valid
        /\ "serial_number" \in DOMAIN gresp[g]
        /\ Responded(k) /\ gresp[k].status = 404
        /\ "serial_number" \notin DOMAIN gresp[k]

\* C15 as stated: a GET /pose handled before the first sample is written
\* is answered 404 with the error field and no other field.
C15_BeforeFirstSampleErrorOnly ==
    \A g \in Getters :
        (Responded(g) /\ snapshot[g] = InitialTriple) =>
            gresp[g] = [status |-> 404, error |-> NotAvailableText]

\* C15 as amended: a GET /pose handled before the first sample is written
\* is answered 404 with the error field, and with no other field except
\* serial_number, which it has only if the poller has stored the tracker's
\* serial number (line 75).
C15_BeforeFirstSampleNotFound ==
    \A g \in Getters :
        (Responded(g) /\ snapshot[g] = InitialTriple) =>
            \/ gresp[g] = [status |-> 404, error |-> NotAvailableText]
            \/ /\ gresp[g] = [status |-> 404, error |-> NotAvailableText,
                               serial_number |-> HwSerial]
               /\ latest_pose_data.serial_number = HwSerial
               /\ tracker_index = FirstTracker

\* before any sample is written, one handler answered without the serial
\* number and one, after device discovery, with it
C15_Witness ==
    /\ samples = <<>> /\ tpc = "while"
    /\ \E g, k \in Getters :
        /\ Responded(g) /\ snapshot[g] = InitialTriple
        /\ gresp[g] = [status |-> 404, error |-> NotAvailableText]
        /\ Responded(k) /\ snapshot[k] = InitialTriple
        /\ gresp[k] = [status |-> 404, error |-> NotAvailableText,
                       serial_number |-> HwSerial]

CurrentTriple ==
    [timestamp |-> latest_pose_data.timestamp,
     pose_matrix |-> latest_pose_data.pose_matrix,
     is_valid |-> latest_pose_data.is_valid]

\* the locals are the record's contents as the handler leaves its with
\* block; a terminated poller leaves the record as it is; the response
\* depends on the locals alone
ServedFromRecord ==
    /\ [][\A g \in Getters :
             (gpc[g] = "is_valid" /\ gpc'[g] = "respond") =>
                 snapshot'[g] = CurrentTriple]_vars
    /\ [][(tpc \in {"finally", "finished"}) =>
              (latest_pose_data' = latest_pose_data)]_vars
    /\ [](\A g \in Getters :
             Responded(g) =>
                 /\ gresp[g].status \in {200, 404}
                 /\ gresp[g].status = 200 <=>
                       (snapshot[g].is_valid /\ snapshot[g].pose_matrix # NoMatrix)
                 /\ gresp[g].status = 200 =>
                       gresp[g].data.timestamp = snapshot[g].timestamp)

\* C17: every GET /pose request completes, with a response computed from
\* the record as it is when the request is handled.
C17_EveryGetCompletes ==
    /\ \A g \in Getters : gpc[g] # "idle" ~> gpc[g] = "done"
    /\ ServedFromRecord

(***************************************************************************)
(* Claims about the ways the poller ends (PoseSpec)                        *)
(***************************************************************************)
Ended == {"finally", "finished"}

\* C18: when initialisation succeeds and no tracker is found, the poller
\* leaves the record invalid, never enters the loop and terminates; main
\* and the server are left as they were, and every GET /pose answers 404.
C18_NoTrackerEndsPollerOnly ==
    /\ [](tracker_index = None =>
             /\ session = "open" \/ tpc = "finished"
             /\ tpc \in {"no_tracker"} \cup Ended
             /\ samples = <<>>
             /\ ~latest_pose_data.is_valid
             /\ latest_pose_data.pose_matrix = NoMatrix
             /\ \A g \in Getters :
                    Responded(g) =>
                        gresp[g] = [status |-> 404, error |-> NotAvailableText])
    /\ [][(tracker_index = None /\ tpc' # tpc) =>
              (tpc' \in Ended /\ mpc' = mpc /\ gpc' = gpc)]_vars

\* the poller has ended for want of a tracker, main is still serving, one
\* request was answered 404 and the next can be accepted
C18_Witness ==
    /\ tracker_index = None /\ tpc = "finished"
    /\ mpc = "serve_forever"
    /\ Responded(1) /\ gresp[1].status = 404
    /\ gpc[2] = "idle"

\* C19: an exception in the poller makes it clear is_valid and terminate;
\* it never initialises the session again nor re-enters the loop; once it
\* has ended with is_valid false, is_valid stays false and every handler
\* that reads the record from then on answers 404.
C19_ExceptionEndsPollerInvalid ==
    /\ [][tpc = "except" =>
              (tpc' \in {"except", "finally"}
               /\ (tpc' = "finally" => ~latest_pose_data'.is_valid))]_vars
    /\ [][(tpc \in {"except"} \cup Ended) =>
              (tpc' \in {"except"} \cup Ended
               /\ (session' = "open" => session = "open"))]_vars
    /\ [][(tpc \in Ended /\ ~latest_pose_data.is_valid) =>
              /\ ~latest_pose_data'.is_valid
              /\ \A g \in Getters :
                     (gpc[g] = "is_valid" /\ gpc'[g] = "respond") =>
                         ~snapshot'[g].is_valid
              /\ \A g \in Getters :
                     (Responds(g) /\ ~snapshot[g].is_valid) =>
                         gresp'[g].status = 404]_vars

\* the loop wrote a valid sample, a later iteration raised, and a handler
\* that read the record afterwards answered 404
C19_Witness ==
    /\ tpc = "finished" /\ samples # <<>>
    /\ samples[Len(samples)].is_valid
    /\ ~latest_pose_data.is_valid
    /\ \E g \in Getters :
           /\ Responded(g) /\ gresp[g].status = 404
           /\ snapshot[g] = CurrentTriple

\* C20: on every exit path taken after the session was initialised, the
\* session is released before the thread finishes.
C20_SessionReleased ==
    tpc = "finished" => session = "closed"

(***************************************************************************)
(* Claims about shutdown of the pose bridge (PoseSpec)                     *)
(***************************************************************************)
\* C21: whenever main has returned, no hardware session is open: the
\* poller has released the session it initialised.
C21_NoExitWithOpenSession ==
    mpc = "returned" => session = "closed"

\* C23: after shutdown no new request is accepted, and the listening
\* socket is released (line 274) and main returns only when every handler
\* thread that had started has sent its response.
C23_GracefulStop ==
    /\ [](mpc \in {"join", "returned"} =>
             \A g \in Getters : gpc[g] \in {"idle", "done"})
    /\ [][\A g \in Getters :
             (gpc[g] = "idle" /\ gpc'[g] # "idle") => mpc = "serve_forever"]_vars

(***************************************************************************)
(* Claims about the pose record (PoseSpec)                                 *)
(***************************************************************************)
\* C24: serial_number is written once, at device discovery (line 75), and
\* never changes afterwards: it holds the discovered value whenever a
\* sample has been written, whatever the samples' validity and however the
\* poller ended.
C24_SerialWrittenOnce ==
    /\ [][latest_pose_data'.serial_number # latest_pose_data.serial_number =>
              /\ tpc = "serial" /\ tpc' = "while"
              /\ latest_pose_data.serial_number = ""
              /\ latest_pose_data'.serial_number = HwSerial]_vars
    /\ [](samples # <<>> => latest_pose_data.serial_number = HwSerial)
    /\ [](tpc \in {"init", "VRSystem", "find", "no_tracker", "serial"} =>
             latest_pose_data.serial_number = "")

\* the poller wrote an invalid sample, then ended on an exception, and the
\* record still holds the discovered serial number
C24_Witness ==
    /\ tpc = "finished" /\ ~shutdown_event
    /\ samples # <<>> /\ ~samples[Len(samples)].is_valid
    /\ latest_pose_data.serial_number = HwSerial

\* C25: every read and write of a field of latest_pose_data is made while
\* holding pose_lock, and every read and write of _current_probe_data
\* while holding _lock.  A thread at one of the positions named is about
\* to read or write the shared state in its next step; the poller's writes
\* of lines 67, 75, 111 and 118 take and release the lock within one step.
C25_AllAccessUnderLock ==
    /\ tpc \in {"timestamp", "pose_matrix", "is_valid"} => pose_lock = PollerLock
    /\ \A g \in Getters :
           (gpc[g] \in {"timestamp", "pose_matrix", "is_valid", "respond"}
            /\ UrlPath(gpath[g]) = "/pose") => pose_lock = GetLock(g)
    /\ \A h \in Requests : hpc[h] = "store" => lock = HandlerLock(h)
    /\ \A c \in Consumers : cpc[c] = "take" => lock = ConsumerLock(c)

(***************************************************************************)
(* Claims about the poller's loop under shutdown (ShutdownSpec)            *)
(***************************************************************************)
\* C22: the poller tests shutdown_event at the start of every iteration:
\* once it is set the poller starts no new iteration, writes at most one
\* more sample (that of the iteration in progress), and terminates, by
\* leaving run or with the process when main returns first.
C22_ShutdownObservedEachIteration ==
    /\ [][(tpc = "sleep" /\ tpc' # "sleep") => tpc' = "while"]_vars
    /\ [][(shutdown_event /\ tpc = "while" /\ tpc' # "while") =>
              tpc' = "finally"]_vars
    /\ [][(tpc # "time" /\ tpc' = "time") =>
              (tpc = "while" /\ ~shutdown_event)]_vars
    /\ \A n \in 0..(MaxPolls + 1) :
           []((shutdown_event /\ Len(samples) = n) => [](Len(samples) <= n + 1))
    /\ shutdown_event ~> (tpc = "finished" \/ mpc = "returned")

\* the poller has left its loop on the shutdown signal after two samples,
\* the record holds the second, and main has not yet returned
C22_Witness ==
    /\ shutdown_event /\ tpc = "finished"
    /\ Len(samples) = 2
    /\ latest_pose_data.timestamp = samples[2].timestamp
    /\ mpc # "returned"

(***************************************************************************)
(* Claims about the order of an iteration (PoseSpec)                       *)
(***************************************************************************)
\* the positions of one iteration, in the order of lines 77-106
IterationOrder ==
    <<"while", "time", "poll", "lock", "timestamp", "pose_matrix", "is_valid",
      "sleep">>

\* position b follows position a in the loop
FollowsInLoop(a, b) ==
    \E i \in 1..Len(IterationOrder) :
        /\ IterationOrder[i] = a
        /\ IterationOrder[(i % Len(IterationOrder)) + 1] = b

InIteration == {IterationOrder[i] : i \in 2..Len(IterationOrder)}

\* C28: an iteration reads the clock, then queries the pose, then writes
\* the sample stamped with the time it read, then sleeps; so the timestamp
\* of a sample is earlier than the clock at the time its pose was read,
\* and the timestamp in the record never decreases.
C28_IterationOrder ==
    /\ [][(tpc \in InIteration /\ tpc' # tpc) =>
              (FollowsInLoop(tpc, tpc') \/ tpc' = "except")]_vars
    /\ [][(tpc = "time" /\ tpc' = "poll") => current_time_epoch' = pnow]_vars
    /\ [][samples' # samples =>
              /\ tpc = "timestamp"
              /\ samples' = Append(samples, [timestamp |-> current_time_epoch,
                                             pose_matrix |-> Matrix(p.matrix),
                                             is_valid |-> p.bPoseIsValid])]_vars
    /\ [](tpc \in {"poll", "lock", "timestamp", "pose_matrix", "is_valid"} =>
             current_time_epoch < pnow)
    /\ [](\A i \in 1..Len(samples) : samples[i].timestamp < pnow)
    /\ [](\A i, j \in 1..Len(samples) :
             i < j => samples[i].timestamp <= samples[j].timestamp)
    /\ [][latest_pose_data'.timestamp >= latest_pose_data.timestamp]_vars

\* two iterations have written their samples and the poller sleeps
C28_Witness ==
    /\ tpc = "sleep" /\ Len(samples) = 2
    /\ samples[1].timestamp < samples[2].timestamp
    /\ latest_pose_data.timestamp = samples[2].timestamp

(***************************************************************************)
(* Claims about the slot and its event (CaptureSpec)                       *)
(***************************************************************************)
\* C29: whenever _lock is not held, the event is set if and only if
\* _current_probe_data is not None; so no consumer waits on a clear event
\* while a frame is in the slot, and a set event never guards an empty
\* slot.
C29_EventIffFrame ==
    lock = Free => (event <=> current_probe_data # None)

\* a frame was taken, a new one was published, and the lock is free with
\* the event set and a consumer waiting
C29_Witness ==
    /\ lock = Free /\ event /\ current_probe_data # None
    /\ takenLog # <<>>
    /\ \E c \in Consumers : cpc[c] = "wait"

(***************************************************************************)
(* Claims about a reduction that raises (IngestSpec)                       *)
(***************************************************************************)
\* the call of consumer c raises at line 116 in this step
Raises(c) == cpc[c] = "reduce" /\ cpc'[c] = "raised"

\* C30: the frame is taken out of the slot and the event cleared before the
\* channels are reduced, and a reduction that raises puts nothing back:
\* unless a new frame has been published since, the slot is empty and the
\* event clear when the call raises, after it has raised, and when the
\* next call waits, which wakes only on a set event.
C30_FrameLostWhenReduceRaises ==
    /\ [][Raises(1) =>
              /\ image_data[1] # None
              /\ current_probe_data' = current_probe_data
              /\ event' = event /\ lock' = lock]_vars
    /\ [](cpc[1] \in {"reduce", "raised"} =>
             /\ image_data[1] \in {published[i] : i \in Published}
             /\ Len(published) = ctake[1] =>
                    (current_probe_data = None /\ ~event))
    /\ [](cpc[1] = "wait" /\ takenLog # <<>>
             /\ takenLog[Len(takenLog)].index = Len(published) =>
                    (current_probe_data = None /\ ~event))
    /\ [][(cpc[1] = "wait" /\ cpc'[1] # "wait") => event]_vars

\* the call that took the only published frame, a 2-D one, has raised:
\* the slot is empty and the event clear
C30_Witness ==
    /\ cpc[1] = "raised" /\ cret[1].error = "AxisError"
    /\ Len(published) = 1 /\ image_data[1] = published[1]
    /\ current_probe_data = None /\ ~event

(***************************************************************************)
(* Claims about conversion faults and pre-flight requests (BrowserSpec)    *)
(***************************************************************************)
\* the rotation part of the locals of g cannot be converted (line 187)
ConversionFails(g) ==
    LET rows == snapshot[g].pose_matrix.rows
    IN  ~AsQuat([i \in 1..3 |-> FirstThree(rows[i])]).ok

\* C26: when the sample read is marked valid and building the response
\* from it fails, GET /pose answers 500 with exactly error and details,
\* and leaves the record and the lock as they are; 500 is sent in no other
\* case, so a missing or invalid sample is still answered 404.
C26_ConversionFaultIs500 ==
    /\ [][\A g \in Getters :
             (Responds(g) /\ snapshot[g].is_valid
                          /\ snapshot[g].pose_matrix # NoMatrix
                          /\ ConversionFails(g)) =>
                 /\ gresp'[g].status = 500
                 /\ DOMAIN gresp'[g] = {"status", "error", "details"}
                 /\ gresp'[g].error = "Internal server error processing pose data"
                 /\ latest_pose_data' = latest_pose_data
                 /\ pose_lock' = pose_lock
                 /\ tpc' = tpc /\ mpc' = mpc]_vars
    /\ [][\A g \in Getters :
             (Responds(g) /\ (~snapshot[g].is_valid
                              \/ snapshot[g].pose_matrix = NoMatrix)) =>
                 gresp'[g].status = 404]_vars
    /\ [][\A g \in Getters :
             (Responds(g) /\ gresp'[g].status = 500) =>
                 (snapshot[g].is_valid /\ snapshot[g].pose_matrix # NoMatrix)]_vars

\* one request was answered 500 for a null transform marked valid, and a
\* request that read the next sample was answered 200
C26_Witness ==
    /\ Len(samples) = 2
    /\ Responded(1) /\ gresp[1].status = 500
    /\ snapshot[1] = samples[1]
    /\ snapshot[1].pose_matrix = Matrix(NullTransform)
    /\ Responded(2) /\ "data" \in DOMAIN gresp[2]
    /\ snapshot[2] = samples[2]

\* Access-Control-Allow-* header values as the lists they stand for
HeaderList(value) ==
    CASE value = "*" -> {"*"}
      [] value = "GET, POST, OPTIONS" -> {"GET", "POST", "OPTIONS"}
      [] value = "Content-Type" -> {"Content-Type"}

\* the header value lets a browser use x
Permits(value, x) == "*" \in HeaderList(value) \/ x \in HeaderList(value)

HttpMethods == {"GET", "HEAD", "POST", "PUT", "PATCH", "DELETE", "OPTIONS"}
RequestHeaders == {"Content-Type", "Authorization", "X-Requested-With"}
Origins == {"http://localhost:8080", "https://example.org"}

\* C27: an OPTIONS request to any path is answered 200, whatever the
\* record holds, with headers that permit any origin, any method and any
\* request header.
C27_PreflightPermitsAll ==
    [][\A g \in Getters, path \in ClientPaths :
         DoOptions(g, path) =>
             /\ gresp'[g].status = 200
             /\ \A o \in Origins : Permits(gresp'[g].cors.allow_origin, o)
             /\ \A m \in HttpMethods : Permits(gresp'[g].cors.allow_methods, m)
             /\ \A h \in RequestHeaders :
                    Permits(gresp'[g].cors.allow_headers, h)]_vars

(***************************************************************************)
(* Claims about the pose record and what a handler sees of it (PoseSpec)   *)
(***************************************************************************)

\* C32: whenever pose_lock is not held, a record marked valid holds a
\* transform (pose_matrix is not None); so no GET /pose handler reads a
\* sample marked valid without a transform.
C32_ValidHasTransform ==
    /\ pose_lock = PoseFree =>
           (latest_pose_data.is_valid = TRUE =>
               latest_pose_data.pose_matrix # NoMatrix)
    /\ \A g \in Getters :
           (HasSnapshot(g) /\ snapshot[g].is_valid = TRUE) =>
               snapshot[g].pose_matrix # NoMatrix

\* a handler has read a valid sample from the unlocked record
C32_Witness ==
    \E g \in Getters :
        /\ HasSnapshot(g) /\ snapshot[g].is_valid = TRUE
        /\ snapshot[g].pose_matrix \in {Matrix(m) : m \in HwMatrices}
        /\ pose_lock = PoseFree /\ latest_pose_data.is_valid = TRUE

\* C33: every 200 response of GET /pose carries the serial number stored at
\* device discovery: no handler holds a valid sample while serial_number
\* still has its initial empty value, although the handler reads
\* serial_number after it released pose_lock.
C33_OkCarriesSerial ==
    /\ \A g \in Getters :
           (Responded(g) /\ gresp[g].status = 200) =>
               gresp[g].data.serial_number = HwSerial
    /\ \A g \in Getters :
           (HasSnapshot(g) /\ snapshot[g].is_valid = TRUE) =>
               latest_pose_data.serial_number = HwSerial

\* a 200 sent after the poller had already written a later sample: the
\* serial number was read from a record the handler no longer had locked
C33_Witness ==
    \E g \in Getters :
        /\ Responded(g) /\ gresp[g].status = 200
        /\ gresp[g].data.serial_number = HwSerial
        /\ latest_pose_data.timestamp > snapshot[g].timestamp

(***************************************************************************)
(* Claims about start and stop of the capture bridge (LifecycleSpec)       *)
(***************************************************************************)
StopReturned == opc = "idle" /\ last_call = "stop"

\* the call of get_next_image began after a stop had returned, with a frame
\* in the slot, and has read the slot
TookAfterStop(c) ==
    /\ cpc[c] \in {"clear", "reduce", "returned", "raised"}
    /\ cstart[c].stopped /\ ~cstart[c].empty
    /\ ctake[c] = cstart[c].npub

\* C34: stop is idempotent and safe in any state.  After stop has returned
\* the fields _server and _server_thread are None, whether or not a start
\* came before; a stop that finds no server (before any start, or after
\* another stop, the atexit call included) changes nothing; no step of stop
\* touches the slot, its event or its lock, so a frame published before
\* stop is what a later get_next_image reads and returns.
C34_StopIdempotent ==
    /\ [](StopReturned => (server = None /\ server_thread = None))
    /\ [][(opc = "test" /\ server = None /\ opc' # opc) =>
              /\ opc' = "idle"
              /\ UNCHANGED <<server, server_thread, servers, otherCapVars>>]_vars
    /\ [][opc' # opc => UNCHANGED <<current_probe_data, event, lock>>]_vars
    /\ [](\A c \in Consumers :
             TookAfterStop(c) =>
                 LET frame == published[cstart[c].npub]
                 IN  /\ image_data[c] = frame
                     /\ cpc[c] = "returned" =>
                           /\ cret[c].request = frame.request
                           /\ cret[c].value[2] = frame.metadata
                     /\ frame.image_array.ndim = 3 => cpc[c] # "raised")

\* a frame that was in the slot when a stop had returned has been returned
\* by a call made after that stop, and a further stop is finding no server
C34_Witness ==
    /\ cpc[1] = "returned" /\ TookAfterStop(1)
    /\ cret[1].request = 1
    /\ servers # <<>> /\ server = None
    /\ opc = "test"

\* C35: after stop has returned, no server thread that a start call began
\* is still asked to keep running: every server created whose thread has
\* not ended has had should_exit set, also when start was called twice
\* without a stop in between.
C35_EveryServerToldToExit ==
    StopReturned =>
        \A s \in DOMAIN servers :
            servers[s].state # "ended" => servers[s].should_exit

\* no step of stop sets the event or writes the slot
StopLeavesSlot ==
    [][opc' # opc => UNCHANGED <<event, current_probe_data, published>>]_vars

\* the wait of line 111 ends for a call that a step of stop found blocked
Released(c) ==
    /\ cpc[c] = "wait" /\ cpc'[c] # "wait"
    /\ stop_saw[c].blocked /\ stop_saw[c].npub = cstart[c].npub

\* C36: a consumer blocked in get_next_image is not released by stop: stop
\* neither sets the event nor publishes, so a call blocked while stop runs
\* stays blocked until a later start and a /capture publish; it blocks
\* forever if the server is never started again.
C36_BlockedUntilRestart ==
    /\ StopLeavesSlot
    /\ [][\A c \in Consumers :
             Released(c) => Len(servers) > stop_saw[c].starts]_vars

\* C36 as amended: a consumer blocked in get_next_image is not released by
\* stop: stop neither sets the event nor publishes, so a call blocked while
\* stop runs stays blocked until a /capture handler publishes, be it a
\* request still in flight when stop ran or one received later; it blocks
\* forever if none does.
C36_BlockedUntilPublish ==
    /\ StopLeavesSlot
    /\ [][\A c \in Consumers :
             Released(c) => Cardinality(Signalled) > stop_saw[c].signalled]_vars
    /\ [](\A c \in Consumers :
             (cpc[c] = "wait" /\ stop_saw[c].blocked
                  /\ stop_saw[c].npub = cstart[c].npub
                  /\ Cardinality(Signalled) = stop_saw[c].signalled) => ~event)

\* a stop has returned, every server thread has ended, no frame was ever
\* published, and the call that was made before the stop is still waiting
C36_Witness ==
    /\ Blocked(1) /\ ~cstart[1].stopped
    /\ stop_saw[1].blocked /\ stop_saw[1].npub = cstart[1].npub
    /\ StopReturned /\ server = None
    /\ servers # <<>> /\ \A s \in DOMAIN servers : servers[s].state = "ended"
    /\ published = <<>>

(***************************************************************************)
(* Claims about the shutdown sequence of main (TerminationSpec)            *)
(***************************************************************************)
MainOrder == <<"serve_forever", "shutdown", "server_close", "join", "returned">>

\* C37: the shutdown sequence of main always terminates and runs in the
\* order: set shutdown_event, httpd.shutdown, httpd.server_close, join the
\* poller with a bounded wait.  httpd.shutdown is reached only after
\* serve_forever has returned, so it does not block, and main returns also
\* when the poller never terminates.
C37_ShutdownSequenceTerminates ==
    /\ [][mpc' # mpc =>
             \E i \in 1..(Len(MainOrder) - 1) :
                 mpc = MainOrder[i] /\ mpc' = MainOrder[i + 1]]_vars
    /\ [](mpc # "serve_forever" => shutdown_event)
    /\ [](mpc = "shutdown" => ENABLED MainShutdown)
    /\ (mpc # "serve_forever") ~> (mpc = "returned")

\* main has returned while the poller is still inside a hardware call
C37_Witness ==
    /\ mpc = "returned"
    /\ tpc \in {"VRSystem", "find", "serial", "poll"}
    /\ shutdown_event

====
